---- MODULE Spec2Model ----
(***************************************************************************)
(* recon: a page is fetched, its markup is tokenized into metadata         *)
(* candidates (metaTags) and image references (imgTags), every image       *)
(* reference is handed to a goroutine that reports on one channel, the     *)
(* coordinator collects the reports under a deadline timer, sorts them,    *)
(* and the Result is assembled from the candidates and the images.         *)
(*                                                                         *)
(* Numbers: priorities are kept in tenths (1.0 -> 10, 0.5 -> 5); the       *)
(* optimal aspect ratio in hundredths (1.91 -> 191); an aspect ratio is    *)
(* the exact fraction num/den.                                             *)
(***************************************************************************)
EXTENDS Integers, Sequences, FiniteSets, TLC

VARIABLES
    url,                \* the argument of Parse
    customClient,       \* TRUE when WithClient replaced the default client
    imageLookupTimeout, \* Parser.imageLookupTimeout, in seconds
    pc,                 \* position of the call: start, tokenize, collect, done
    tokErr,             \* the decoder's sticky error: none, EOF, ERR
    nTok,               \* events the decoder has delivered
    metaTags,           \* parseJob.metaTags
    imgTags,            \* parseJob.imgTags
    wk,                 \* the goroutines of analyzeImages, one per imgTag
    numFound,           \* analyzeImages: numFound
    returned,           \* analyzeImages: returned
    timer,              \* timeOutCh: none, armed, ready, taken
    res,                \* the Result Parse returns
    err,                \* the error Parse returns
    pageResp,           \* how p.client.Do answered the page request
    doCalls,            \* requests handed to p.client.Do for the page
    netSends,           \* page requests the client's transport has sent
    imgFetches,         \* requests handed to p.client.Do for images
    pwc,                \* the calls of ParseWithConfidence, each with its Parser
    calls,              \* calls of Parse on this Parser that have returned
    stale,              \* goroutines of those calls that have not finished
    selectDecodes,      \* bodies decoded inside the select of analyzeImages
    DefaultClientJar,   \* http.DefaultClient.Jar: 0 is nil, n the jar of the n-th cookiejar.New
    parsers             \* the Parsers NewParser has returned, each with its requests

vars == <<url, customClient, imageLookupTimeout, pc, tokErr, nTok, metaTags,
          imgTags, wk, numFound, returned, timer, res, err, pageResp, doCalls,
          netSends, imgFetches, pwc, calls, stale, selectDecodes,
          DefaultClientJar, parsers>>

(***************************************************************************)
(* Bounds of the model.                                                    *)
(***************************************************************************)
MaxEvents == 2      \* events one page delivers before its stream ends
MaxTags == 3        \* candidates drawn for the resolver
MaxRank == 3        \* images drawn for the ranking

(***************************************************************************)
(* Property registry.                                                      *)
(***************************************************************************)
OgNames == {"og:site_name", "og:title", "og:type", "og:description",
            "og:author", "og:publisher", "og:url", "og:image"}
PlainNames == {"site_name", "title", "type", "description", "author", "publisher"}

targetedProperties == [n \in OgNames \cup PlainNames |-> IF n \in OgNames THEN 10 ELSE 5]

propertyMap ==
    [URL         |-> <<"og:url">>,
     Site        |-> <<"og:site_name", "site_name">>,
     Title       |-> <<"og:title", "title">>,
     Type        |-> <<"og:type", "type">>,
     Description |-> <<"og:description", "description">>,
     Author      |-> <<"og:author", "author">>,
     Publisher   |-> <<"og:publisher", "publisher">>]

Fields == DOMAIN propertyMap

OptimalAspectRatio == 191

metaTag(n, v, p) == [name |-> n, value |-> v, priority |-> p]
ZeroMetaTag == metaTag("", "", 0)

imgTag(u, a, p) == [url |-> u, alt |-> a, preferred |-> p]

(***************************************************************************)
(* getMaxProperty: the outer loop runs over the field's identifiers, the   *)
(* inner loop over the candidates in extraction order; a candidate         *)
(* replaces the best one only on a strictly greater priority.              *)
(***************************************************************************)
RECURSIVE ScanTagsAny(_, _, _, _)
ScanTagsAny(tags, i, searchTag, acc) ==
    IF i > Len(tags) THEN acc
    ELSE ScanTagsAny(tags, i + 1, searchTag,
            IF tags[i].name = searchTag
            THEN [val |-> tags[i].value, maxWeight |-> tags[i].priority]
            ELSE acc)

RECURSIVE ScanTagsGE(_, _, _, _)
ScanTagsGE(tags, i, searchTag, acc) ==
    IF i > Len(tags) THEN acc
    ELSE ScanTagsGE(tags, i + 1, searchTag,
            IF tags[i].name = searchTag /\ tags[i].priority >= acc.maxWeight
            THEN [val |-> tags[i].value, maxWeight |-> tags[i].priority]
            ELSE acc)

RECURSIVE ScanTags(_, _, _, _)
ScanTags(tags, i, searchTag, acc) ==
    IF i > Len(tags) THEN acc
    ELSE ScanTags(tags, i + 1, searchTag,
            IF tags[i].name = searchTag /\ tags[i].priority > acc.maxWeight
            THEN [val |-> tags[i].value, maxWeight |-> tags[i].priority]
            ELSE acc)

RECURSIVE ScanSearchAny(_, _, _, _)
ScanSearchAny(tags, list, j, acc) ==
    IF j > Len(list) THEN acc
    ELSE ScanSearchAny(tags, list, j + 1, ScanTagsAny(tags, 1, list[j], acc))

RECURSIVE ScanSearchGE(_, _, _, _)
ScanSearchGE(tags, list, j, acc) ==
    IF j > Len(list) THEN acc
    ELSE ScanSearchGE(tags, list, j + 1, ScanTagsGE(tags, 1, list[j], acc))

RECURSIVE ScanSearch(_, _, _, _)
ScanSearch(tags, list, j, acc) ==
    IF j > Len(list) THEN acc
    ELSE ScanSearch(tags, list, j + 1, ScanTags(tags, 1, list[j], acc))

\* getMaxProperty without the priority comparison: the last match wins.
getMaxPropertyAny(tags, key) ==
    ScanSearchAny(tags, propertyMap[key], 1, [val |-> "", maxWeight |-> 0]).val

\* getMaxProperty with >= for >: a later candidate of equal priority overwrites.
getMaxPropertyGE(tags, key) ==
    ScanSearchGE(tags, propertyMap[key], 1, [val |-> "", maxWeight |-> 0]).val

getMaxProperty(tags, key) ==
    ScanSearch(tags, propertyMap[key], 1, [val |-> "", maxWeight |-> 0]).val

(***************************************************************************)
(* net/url as the code uses it, on the URLs of the model.                  *)
(***************************************************************************)
BadUrl == "%zz"                               \* url.Parse fails: invalid escape
PageUrl == "http://h/p"
CanonicalUrl == "http://c/q"
DataUrlOk == "data:image/png;base64,iVBORw=="  \* a payload base64 decodes
DataUrlBad == "data:image/png;base64,!"        \* a payload base64 rejects
RelUrl == "/a.png"

UrlParseFails(s) == s = BadUrl

UrlScheme(s) ==
    CASE s \in {PageUrl, CanonicalUrl} -> "http"
      [] s \in {DataUrlOk, DataUrlBad} -> "data"
      [] OTHER -> ""

UrlHost(s) ==
    CASE s = PageUrl -> "h"
      [] s = CanonicalUrl -> "c"
      [] OTHER -> ""

\* URL.String(): the path is escaped.
UrlString(s) == IF s = "invalid url" THEN "invalid%20url" ELSE s

\* base.ResolveReference(ref).String(): an absolute reference stays, a
\* relative one takes the base's scheme and host.
ResolveReference(base, ref) ==
    IF UrlScheme(ref) # "" THEN UrlString(ref)
    ELSE IF ref = RelUrl /\ UrlHost(base) # "" THEN "http://" \o UrlHost(base) \o RelUrl
    ELSE UrlString(ref)

(***************************************************************************)
(* Result and buildResult.                                                 *)
(***************************************************************************)
ZeroResult ==
    [URL |-> "", Host |-> "", Site |-> "", Title |-> "", Type |-> "",
     Description |-> "", Author |-> "", Publisher |-> "", Images |-> <<>>]

\* buildResult that titles an untitled page with the alt of its first image.
buildResultAltTitle(requestURL, tags, imgs) ==
    LET canonicalURLStr == getMaxProperty(tags, "URL")
        useCanonical == canonicalURLStr # "" /\ ~UrlParseFails(canonicalURLStr)
        title == getMaxProperty(tags, "Title")
    IN  [URL         |-> IF useCanonical THEN UrlString(canonicalURLStr) ELSE UrlString(requestURL),
         Host        |-> IF useCanonical THEN UrlHost(canonicalURLStr) ELSE UrlHost(requestURL),
         Site        |-> getMaxProperty(tags, "Site"),
         Title       |-> IF title = "" /\ imgs # <<>> THEN imgs[1].Alt ELSE title,
         Type        |-> getMaxProperty(tags, "Type"),
         Description |-> getMaxProperty(tags, "Description"),
         Author      |-> getMaxProperty(tags, "Author"),
         Publisher   |-> getMaxProperty(tags, "Publisher"),
         Images      |-> imgs]

\* buildResult that takes the canonical URL but leaves the requested host.
buildResultRequestedHost(requestURL, tags, imgs) ==
    LET canonicalURLStr == getMaxProperty(tags, "URL")
        useCanonical == canonicalURLStr # "" /\ ~UrlParseFails(canonicalURLStr)
    IN  [URL         |-> IF useCanonical THEN UrlString(canonicalURLStr) ELSE UrlString(requestURL),
         Host        |-> UrlHost(requestURL),
         Site        |-> getMaxProperty(tags, "Site"),
         Title       |-> getMaxProperty(tags, "Title"),
         Type        |-> getMaxProperty(tags, "Type"),
         Description |-> getMaxProperty(tags, "Description"),
         Author      |-> getMaxProperty(tags, "Author"),
         Publisher   |-> getMaxProperty(tags, "Publisher"),
         Images      |-> imgs]

buildResult(requestURL, tags, imgs) ==
    LET canonicalURLStr == getMaxProperty(tags, "URL")
        useCanonical == canonicalURLStr # "" /\ ~UrlParseFails(canonicalURLStr)
    IN  [URL         |-> IF useCanonical THEN UrlString(canonicalURLStr) ELSE UrlString(requestURL),
         Host        |-> IF useCanonical THEN UrlHost(canonicalURLStr) ELSE UrlHost(requestURL),
         Site        |-> getMaxProperty(tags, "Site"),
         Title       |-> getMaxProperty(tags, "Title"),
         Type        |-> getMaxProperty(tags, "Type"),
         Description |-> getMaxProperty(tags, "Description"),
         Author      |-> getMaxProperty(tags, "Author"),
         Publisher   |-> getMaxProperty(tags, "Publisher"),
         Images      |-> imgs]

(***************************************************************************)
(* Images: what a goroutine sends (parsedImage), what the coordinator      *)
(* appends (Image, by export), and the order of the returned list.         *)
(* data is the size the decoder of the content type reads from the bytes,  *)
(* <<0, 0>> when it reads none.                                            *)
(***************************************************************************)
parsedImage(u, ct, d, a, p) ==
    [url |-> u, contentType |-> ct, data |-> d, alt |-> a, preferred |-> p]
ZeroParsedImage == parsedImage("", "", <<0, 0>>, "", FALSE)

Image(u, t, w, h, a, ar, p) ==
    [URL |-> u, Type |-> t, Width |-> w, Height |-> h, Alt |-> a,
     AspectRatio |-> ar, Preferred |-> p]
Unset == [num |-> 0, den |-> 1]
ZeroImage == Image("", "", 0, 0, "", Unset, FALSE)

\* export that sets the ratio whatever the height.
exportRatioAlways(in) ==
    LET decoded == in.contentType \in {"image/jpeg", "image/gif", "image/png"}
        w == IF decoded THEN in.data[1] ELSE 0
        h == IF decoded THEN in.data[2] ELSE 0
    IN  Image(in.url, in.contentType, w, h, in.alt, [num |-> w, den |-> h], in.preferred)

\* export that decodes the body whatever the Content-Type.
exportDecodeAny(in) ==
    LET w == in.data[1]
        h == in.data[2]
    IN  Image(in.url, in.contentType, w, h, in.alt,
              IF h > 0 THEN [num |-> w, den |-> h] ELSE Unset, in.preferred)

export(in) ==
    LET decoded == in.contentType \in {"image/jpeg", "image/gif", "image/png"}
        w == IF decoded THEN in.data[1] ELSE 0
        h == IF decoded THEN in.data[2] ELSE 0
    IN  Image(in.url, in.contentType, w, h, in.alt,
              IF h > 0 THEN [num |-> w, den |-> h] ELSE Unset, in.preferred)

Abs(x) == IF x < 0 THEN -x ELSE x

\* |num/den - 1.91| < |num'/den' - 1.91|, cross-multiplied.
Closer(a, b) ==
    Abs(100 * a.num - OptimalAspectRatio * a.den) * b.den
        < Abs(100 * b.num - OptimalAspectRatio * b.den) * a.den

\* The comparator without its two preferred tests.
LessRatioOnly(a, b) == Closer(a.AspectRatio, b.AspectRatio)

Less(a, b) ==
    IF a.Preferred /\ ~b.Preferred THEN TRUE
    ELSE IF ~a.Preferred /\ b.Preferred THEN FALSE
    ELSE Closer(a.AspectRatio, b.AspectRatio)

Swap(s, i, j) == [s EXCEPT ![i] = s[j], ![j] = s[i]]

\* sort.Slice on a short slice is an insertion sort.
RECURSIVE Sink(_, _)
Sink(s, j) ==
    IF j > 1 /\ Less(s[j], s[j - 1]) THEN Sink(Swap(s, j, j - 1), j - 1) ELSE s

RECURSIVE SortFrom(_, _)
SortFrom(s, i) == IF i > Len(s) THEN s ELSE SortFrom(Sink(s, i), i + 1)

sortImages(s) == SortFrom(s, 2)

(***************************************************************************)
(* The tokenizer's events and the three tag parsers.                       *)
(***************************************************************************)
Attr(k, v) == [Key |-> k, Val |-> v]
Token(ty, d, at) == [type |-> ty, data |-> d, attr |-> at]

\* strings.TrimSpace on the strings of the model.
TrimSpace(s) == IF s = " A " THEN "A" ELSE s

RECURSIVE parseMetaLoop(_, _, _)
parseMetaLoop(at, i, acc) ==
    IF i > Len(at) THEN acc
    ELSE LET v == at[i] IN
         parseMetaLoop(at, i + 1,
            IF v.Key = "property" \/ v.Key = "name"
            THEN IF v.Val \in DOMAIN targetedProperties
                 THEN [acc EXCEPT !.tag = TrimSpace(v.Val),
                                  !.priority = targetedProperties[v.Val]]
                 ELSE acc
            ELSE IF v.Key = "content"
                 THEN [acc EXCEPT !.content = TrimSpace(v.Val)]
                 ELSE acc)

parseMeta(t) ==
    LET r == parseMetaLoop(t.attr, 1, [content |-> "", tag |-> "", priority |-> 0])
    IN  IF r.priority > 0 THEN metaTag(r.tag, r.content, r.priority) ELSE ZeroMetaTag

RECURSIVE parseImgLoop(_, _, _)
parseImgLoop(at, i, acc) ==
    IF i > Len(at) THEN acc
    ELSE LET v == at[i] IN
         parseImgLoop(at, i + 1,
            IF v.Key = "src" THEN [acc EXCEPT !.url = v.Val]
            ELSE IF v.Key = "alt" THEN [acc EXCEPT !.alt = v.Val]
            ELSE acc)

\* parseImg that marks its reference preferred.
parseImgPreferred(t) ==
    LET i == parseImgLoop(t.attr, 1, imgTag("", "", TRUE))
    IN  IF i.url # "" THEN i ELSE imgTag("", "", FALSE)

parseImg(t) ==
    LET i == parseImgLoop(t.attr, 1, imgTag("", "", FALSE))
    IN  IF i.url # "" THEN i ELSE imgTag("", "", FALSE)

parseTitle(t) == metaTag("title", t.data, 5)

ImgSrcs == {RelUrl, BadUrl, DataUrlOk, DataUrlBad}

MetaTokens ==
    {Token("StartTag", "meta", <<Attr("property", "og:title"), Attr("content", " A ")>>),
     Token("StartTag", "meta", <<Attr("name", "viewport"), Attr("content", "w")>>)}
    \cup {Token("SelfClosingTag", "meta", <<Attr("property", "og:image"), Attr("content", u)>>) :
            u \in {RelUrl, DataUrlBad}}
ImgTokens ==
    {Token("SelfClosingTag", "img", <<Attr("src", u), Attr("alt", "x")>>) :
            u \in {RelUrl, BadUrl, DataUrlOk}}
    \cup {Token("StartTag", "img", <<Attr("alt", "x")>>)}
TitleToken == Token("StartTag", "title", <<>>)
OtherTokens == {Token("Text", "T", <<>>), Token("EndTag", "title", <<>>)}
Tokens == MetaTokens \cup ImgTokens \cup {TitleToken} \cup OtherTokens

\* what decoder.Err() is once Next has returned an ErrorToken
StreamEnds == {"EOF", "ERR"}
ErrorTokens == {Token("Error", e, <<>>) : e \in StreamEnds}

(***************************************************************************)
(* The page request: newReq, then p.client.Do, then the status test.       *)
(***************************************************************************)
\* http.NewRequest fails exactly when url.Parse fails.
newReqFails(u) == UrlParseFails(u)

\* What p.client.Do can answer. The default transport refuses a URL whose
\* scheme is not http or https; a client set by WithClient answers as its
\* own transport decides.
DoOutcomes(u, custom) ==
    IF ~custom /\ UrlScheme(u) # "http" THEN {"transport"}
    ELSE {"ok", "status", "transport"}

\* Whether the transport puts the request on the network.
Sends(u, custom) == custom \/ UrlScheme(u) = "http"

\* getHTML without the status test: only a transport error fails the fetch.
getHTMLNoStatus(u, outcome) ==
    IF newReqFails(u) THEN "error creating request"
    ELSE IF outcome = "transport" THEN "http error"
    ELSE "nil"

getHTML(u, outcome) ==
    IF newReqFails(u) THEN "error creating request"
    ELSE IF outcome = "transport" \/ outcome = "status" THEN "http error"
    ELSE "nil"

\* tokenize that swallows every tokenizer error.
tokenizeReturnNil(e) == "nil"

\* what tokenize returns on an ErrorToken
tokenizeReturn(e) == IF e = "EOF" THEN "nil" ELSE "tokenizer error"

\* Parse that turns a failed image into a failed parse.
ParseReturnImgErr(requestURL, tags, imgs) ==
    IF \E i \in DOMAIN imgs : imgs[i].URL = ""
    THEN [res |-> ZeroResult, err |-> "analyze images"]
    ELSE [res |-> buildResult(requestURL, tags, imgs), err |-> "nil"]

\* the end of Parse, after analyzeImages has returned imgs
ParseReturn(requestURL, tags, imgs) ==
    [res |-> buildResult(requestURL, tags, imgs), err |-> "nil"]

(***************************************************************************)
(* Parse, step by step.                                                    *)
(***************************************************************************)
DefaultImageLookupTimeout == 10

\* The parsers and arguments of the model: the default client with a usable,
\* an empty, a schemeless and a malformed URL, and a client of the caller's.
ParserRuns ==
    {<<PageUrl, FALSE>>, <<"", FALSE>>, <<"invalid url", FALSE>>,
     <<BadUrl, FALSE>>, <<"", TRUE>>}

BoundedSeq(S, n) == UNION {[1..k -> S] : k \in 0..n}

Idle ==
    /\ tokErr = "none" /\ nTok = 0
    /\ metaTags = <<>> /\ imgTags = <<>>
    /\ wk = <<>> /\ numFound = 0 /\ returned = <<>>
    /\ timer = "none"
    /\ res = ZeroResult /\ err = "nil"
    /\ pageResp = "none" /\ doCalls = 0 /\ netSends = 0 /\ imgFetches = 0
    /\ pwc = <<>>
    /\ calls = 0 /\ stale = <<>> /\ selectDecodes = 0
    /\ DefaultClientJar = 0 /\ parsers = <<>>

Init ==
    /\ \E run \in ParserRuns : url = run[1] /\ customClient = run[2]
    /\ imageLookupTimeout \in {0, DefaultImageLookupTimeout}
    /\ pc = "start"
    /\ Idle

\* Parse: getHTML. No request is sent when newReq fails.
ParseGetHTML ==
    /\ pc = "start"
    /\ \E outcome \in (IF newReqFails(url) THEN {"none"} ELSE DoOutcomes(url, customClient)) :
         /\ pageResp' = outcome
         /\ doCalls' = IF newReqFails(url) THEN doCalls ELSE doCalls + 1
         /\ netSends' = IF ~newReqFails(url) /\ Sends(url, customClient)
                        THEN netSends + 1 ELSE netSends
         /\ IF getHTML(url, outcome) # "nil"
            THEN /\ pc' = "done"
                 /\ err' = "get html"
                 /\ res' = ZeroResult
            ELSE /\ pc' = "tokenize"
                 /\ UNCHANGED <<err, res>>
    /\ UNCHANGED <<DefaultClientJar, parsers, pwc, calls, stale, selectDecodes, url, customClient, imageLookupTimeout, tokErr, nTok, metaTags,
                   imgTags, wk, numFound, returned, timer, imgFetches>>

\* A goroutine: where it is (st), what it still has to send on ch (out), its
\* local err, the status of the response it got (0 when it got none), and
\* how many of its sends the coordinator has received (sent).
Started == [st |-> "run", out |-> <<>>, err |-> "nil", status |-> 0, sent |-> 0]

Decoding == pc = "tokenize" /\ tokErr = "none" /\ nTok < MaxEvents

\* the case of tokenize's switch that looks at the tag, with the
\* StartTagToken left out
IsSelfClosingTagToken(t) == t.type = "SelfClosingTag"

\* case html.SelfClosingTagToken, html.StartTagToken
IsTagToken(t) == t.type \in {"SelfClosingTag", "StartTag"}

tokFrame == <<DefaultClientJar, parsers, pwc, calls, stale, selectDecodes, url, customClient, imageLookupTimeout, pc, wk, numFound, returned,
              timer, res, err, pageResp, doCalls, netSends, imgFetches>>

\* tokenize: a meta tag
TokMeta(t) ==
    /\ Decoding
    /\ IsTagToken(t) /\ t.data = "meta"
    /\ LET r == parseMeta(t) IN
         /\ metaTags' = Append(metaTags, r)
         /\ imgTags' = IF r.name = "og:image"
                       THEN Append(imgTags, imgTag(r.value, "", TRUE))
                       ELSE imgTags
    /\ nTok' = nTok + 1
    /\ UNCHANGED tokErr
    /\ UNCHANGED tokFrame

\* tokenize: an img tag
TokImg(t) ==
    /\ Decoding
    /\ IsTagToken(t) /\ t.data = "img"
    /\ LET r == parseImg(t) IN
         /\ imgTags' = IF r.url # "" THEN Append(imgTags, r) ELSE imgTags
    /\ nTok' = nTok + 1
    /\ UNCHANGED <<tokErr, metaTags>>
    /\ UNCHANGED tokFrame

\* tokenize: a title tag; the event after it is taken at once, whatever it
\* is, and is used only when it is text. la is that event, or how the
\* stream ends there.
TokTitle(t, la) ==
    /\ Decoding
    /\ IsTagToken(t) /\ t.data = "title"
    /\ la \in (IF nTok + 1 < MaxEvents THEN Tokens ELSE {}) \cup ErrorTokens
    /\ IF la.type = "Error"
       THEN /\ tokErr' = la.data
            /\ nTok' = nTok + 1
            /\ UNCHANGED metaTags
       ELSE /\ metaTags' = IF la.type = "Text"
                           THEN Append(metaTags, parseTitle(la))
                           ELSE metaTags
            /\ nTok' = nTok + 2
            /\ UNCHANGED tokErr
    /\ UNCHANGED imgTags
    /\ UNCHANGED tokFrame

\* tokenize: any other event
TokSkip(t) ==
    /\ Decoding
    /\ ~(IsTagToken(t) /\ t.data \in {"meta", "img", "title"})
    /\ nTok' = nTok + 1
    /\ UNCHANGED <<tokErr, metaTags, imgTags>>
    /\ UNCHANGED tokFrame

\* a tokenizer that does not keep the error it has reported once
decoderErrLost(te) == IF te = "none" THEN StreamEnds ELSE {}

\* tt := decoder.Next() gives an ErrorToken and decoder.Err() the error: the
\* one an earlier Next has already reported (te), or how the stream ends.
decoderErr(te) == IF te = "none" THEN StreamEnds ELSE {te}

\* tokenize: an ErrorToken that is no clean end; Parse returns the error.
TokError ==
    /\ pc = "tokenize"
    /\ \E e \in decoderErr(tokErr) :
         /\ tokenizeReturn(e) # "nil"
         /\ tokErr' = e
    /\ pc' = "done"
    /\ err' = "tokenize"
    /\ res' = ZeroResult
    /\ UNCHANGED <<DefaultClientJar, parsers, pwc, calls, stale, selectDecodes, url, customClient, imageLookupTimeout, nTok, metaTags, imgTags,
                   wk, numFound, returned, timer, pageResp, doCalls, netSends,
                   imgFetches>>

\* analyzeImages without its test of numFound
ReturnsAtOnceNever(n) == FALSE

\* analyzeImages: if numFound == 0 { return returned }
ReturnsAtOnce(n) == n = 0

\* tokenize: the stream ends and tokenize returns nil. analyzeImages starts
\* a goroutine per image reference; with none it returns at once, otherwise
\* it starts the timer and enters the loop.
TokEOF ==
    /\ pc = "tokenize"
    /\ \E e \in decoderErr(tokErr) :
         /\ tokenizeReturn(e) = "nil"
         /\ tokErr' = e
    /\ wk' = [i \in 1..Len(imgTags) |-> Started]
    /\ numFound' = Len(imgTags)
    /\ IF ReturnsAtOnce(Len(imgTags))
       THEN /\ pc' = "done"
            /\ res' = ParseReturn(url, metaTags, <<>>).res
            /\ err' = ParseReturn(url, metaTags, <<>>).err
            /\ UNCHANGED timer
       ELSE /\ pc' = "collect"
            /\ timer' = IF imageLookupTimeout = 0 THEN "ready" ELSE "armed"
            /\ UNCHANGED <<res, err>>
    /\ UNCHANGED <<DefaultClientJar, parsers, pwc, calls, stale, selectDecodes, url, customClient, imageLookupTimeout, nTok, metaTags, imgTags,
                   returned, pageResp, doCalls, netSends, imgFetches>>

(***************************************************************************)
(* analyzeImages: the goroutines.  A goroutine that has reached a send on  *)
(* ch holds what it still has to send in out; the channel is unbuffered,   *)
(* so a send completes only when the coordinator receives.                 *)
(***************************************************************************)
\* parseImgFromData on the data URLs of the model: the image the payload
\* holds, or the error of the base64 decoder.
parseImgFromData(i) ==
    IF i.url = DataUrlOk
    THEN [err |-> "nil",
          img |-> parsedImage(i.url, "image/png", <<1, 1>>, i.alt, i.preferred)]
    ELSE [err |-> "illegal base64 data", img |-> ZeroParsedImage]

\* What the image request can bring back: a transport error, or a response
\* with its status, its Content-Type and the size its body decodes to.
ImgReplies ==
    {[err |-> "transport", status |-> 0, contentType |-> "", data |-> <<0, 0>>],
     [err |-> "nil", status |-> 200, contentType |-> "image/png", data |-> <<2, 1>>],
     [err |-> "nil", status |-> 200, contentType |-> "text/html", data |-> <<0, 0>>],
     [err |-> "nil", status |-> 404, contentType |-> "text/html", data |-> <<0, 0>>]}

\* parseImage that forgets the preferred flag of the tag.
parseImageNotPreferred(u, tag, reply) ==
    IF reply.err # "nil"
    THEN [err |-> "parseImage", img |-> ZeroParsedImage]
    ELSE [err |-> "nil",
          img |-> parsedImage(u, reply.contentType, reply.data, tag.alt, FALSE)]

parseImage(u, tag, reply) ==
    IF reply.err # "nil"
    THEN [err |-> "parseImage", img |-> ZeroParsedImage]
    ELSE [err |-> "nil",
          img |-> parsedImage(u, reply.contentType, reply.data, tag.alt, tag.preferred)]

wkFrame == <<DefaultClientJar, parsers, pwc, calls, stale, selectDecodes, url, customClient, imageLookupTimeout, pc, tokErr, nTok, metaTags,
             imgTags, numFound, returned, timer, res, err, pageResp, doCalls,
             netSends>>

Sending(w, msgs, e, status) ==
    [w EXCEPT !.st = "send", !.out = msgs, !.err = e, !.status = status]

\* goroutine i: url.Parse fails
WorkerMalformed(i) ==
    /\ wk[i].st = "run"
    /\ UrlParseFails(imgTags[i].url)
    /\ wk' = [wk EXCEPT ![i] = Sending(wk[i], <<ZeroParsedImage>>, "url.Parse", 0)]
    /\ UNCHANGED imgFetches
    /\ UNCHANGED wkFrame

\* goroutine i: a data URL. After a failed parseImgFromData the empty image
\* is sent, and then img is sent as well.
WorkerData(i) ==
    /\ wk[i].st = "run"
    /\ ~UrlParseFails(imgTags[i].url)
    /\ UrlScheme(ResolveReference(url, imgTags[i].url)) = "data"
    /\ LET r == parseImgFromData(imgTags[i]) IN
         wk' = [wk EXCEPT ![i] =
                  IF r.err # "nil"
                  THEN Sending(wk[i], <<ZeroParsedImage, r.img>>, r.err, 0)
                  ELSE Sending(wk[i], <<r.img>>, "nil", 0)]
    /\ UNCHANGED imgFetches
    /\ UNCHANGED wkFrame

\* goroutine i: any other URL is requested
WorkerFetch(i, reply) ==
    /\ wk[i].st = "run"
    /\ ~UrlParseFails(imgTags[i].url)
    /\ UrlScheme(ResolveReference(url, imgTags[i].url)) # "data"
    /\ LET r == parseImage(ResolveReference(url, imgTags[i].url), imgTags[i], reply) IN
         wk' = [wk EXCEPT ![i] =
                  IF r.err # "nil"
                  THEN Sending(wk[i], <<ZeroParsedImage>>, r.err, reply.status)
                  ELSE Sending(wk[i], <<r.img>>, "nil", reply.status)]
    /\ imgFetches' = imgFetches + 1
    /\ UNCHANGED wkFrame

(***************************************************************************)
(* analyzeImages: the loop of the coordinator.                             *)
(***************************************************************************)
\* after the select: leave the loop when enough was collected, sort, and
\* let Parse build the Result; otherwise select again.
AfterSelect(got) ==
    /\ returned' = got
    /\ IF Len(got) >= numFound
       THEN /\ pc' = "done"
            /\ res' = ParseReturn(url, metaTags, sortImages(got)).res
            /\ err' = ParseReturn(url, metaTags, sortImages(got)).err
       ELSE UNCHANGED <<pc, res, err>>

\* how many bodies export reads and decodes for in: one when the
\* Content-Type is a case of its switch
Decodes(in) == IF in.contentType \in {"image/jpeg", "image/gif", "image/png"} THEN 1 ELSE 0

\* case incoming := <-ch, and the export of incoming
Receive(i) ==
    /\ pc = "collect"
    /\ wk[i].st = "send"
    /\ wk' = [wk EXCEPT ![i] =
                IF Len(wk[i].out) > 1
                THEN [wk[i] EXCEPT !.out = Tail(wk[i].out), !.sent = wk[i].sent + 1]
                ELSE [wk[i] EXCEPT !.st = "exit", !.out = <<>>, !.sent = wk[i].sent + 1]]
    /\ AfterSelect(Append(returned, export(Head(wk[i].out))))
    /\ selectDecodes' = selectDecodes + Decodes(Head(wk[i].out))
    /\ UNCHANGED <<DefaultClientJar, parsers, pwc, calls, stale, url, customClient, imageLookupTimeout, tokErr, nTok, metaTags,
                   imgTags, numFound, timer, pageResp, doCalls, netSends, imgFetches>>

\* case <-timeOutCh: the break leaves the select
Timeout ==
    /\ pc = "collect"
    /\ timer = "ready"
    /\ timer' = "taken"
    /\ AfterSelect(returned)
    /\ UNCHANGED <<DefaultClientJar, parsers, pwc, calls, stale, selectDecodes, url, customClient, imageLookupTimeout, tokErr, nTok, metaTags,
                   imgTags, wk, numFound, pageResp, doCalls, netSends, imgFetches>>

\* the runtime fires the timer of time.After
TimerFire ==
    /\ timer = "armed"
    /\ timer' = "ready"
    /\ UNCHANGED <<DefaultClientJar, parsers, pwc, calls, stale, selectDecodes, url, customClient, imageLookupTimeout, pc, tokErr, nTok, metaTags,
                   imgTags, wk, numFound, returned, res, err, pageResp, doCalls,
                   netSends, imgFetches>>

Next ==
    \/ ParseGetHTML
    \/ \E t \in Tokens : TokMeta(t)
    \/ \E t \in Tokens : TokImg(t)
    \/ \E t \in Tokens : \E la \in Tokens \cup ErrorTokens : TokTitle(t, la)
    \/ \E t \in Tokens : TokSkip(t)
    \/ TokError
    \/ TokEOF
    \/ \E i \in DOMAIN wk : WorkerMalformed(i)
    \/ \E i \in DOMAIN wk : WorkerData(i)
    \/ \E i \in DOMAIN wk : \E reply \in ImgReplies : WorkerFetch(i, reply)
    \/ \E i \in DOMAIN wk : Receive(i)
    \/ Timeout
    \/ TimerFire

Spec == Init /\ [][Next]_vars

(***************************************************************************)
(* Several calls of Parse on one Parser.  A call that has returned can     *)
(* leave goroutines behind: each holds the tag and the channel it was      *)
(* started with.  The next call gets a new parseJob from getHTML and a     *)
(* new channel and a new returned from analyzeImages.                      *)
(***************************************************************************)
MaxCalls == 2

\* a channel kept on the Parser: every goroutine sends on the one channel
SendsOnAny(w, c) == TRUE

\* whether goroutine w sends on the channel that call number c made
SendsOn(w, c) == w.ch = c

\* goroutine i of the call that returns, as it is left behind
Leftover(i) ==
    [st |-> wk[i].st, out |-> wk[i].out, tag |-> imgTags[i], base |-> url, ch |-> calls]

\* Parse has returned and is called again on the same Parser.
ParseAgain ==
    /\ pc = "done"
    /\ calls + 1 < MaxCalls
    /\ calls' = calls + 1
    /\ stale' = stale \o SelectSeq([i \in DOMAIN wk |-> Leftover(i)],
                                   LAMBDA w : w.st # "exit")
    /\ pc' = "start"
    /\ tokErr' = "none" /\ nTok' = 0
    /\ metaTags' = <<>> /\ imgTags' = <<>>
    /\ wk' = <<>> /\ numFound' = 0 /\ returned' = <<>>
    /\ timer' = "none"
    /\ res' = ZeroResult /\ err' = "nil"
    /\ pageResp' = "none" /\ doCalls' = 0 /\ netSends' = 0 /\ imgFetches' = 0
    /\ selectDecodes' = 0
    /\ UNCHANGED <<DefaultClientJar, parsers, url, customClient, imageLookupTimeout, pwc>>

\* what a goroutine started with tag on a page at base has to send
GoroutineSends(base, tag, reply) ==
    IF UrlParseFails(tag.url) THEN <<ZeroParsedImage>>
    ELSE IF UrlScheme(ResolveReference(base, tag.url)) = "data"
    THEN LET r == parseImgFromData(tag)
         IN  IF r.err # "nil" THEN <<ZeroParsedImage, r.img>> ELSE <<r.img>>
    ELSE LET r == parseImage(ResolveReference(base, tag.url), tag, reply)
         IN  IF r.err # "nil" THEN <<ZeroParsedImage>> ELSE <<r.img>>

staleFrame == <<DefaultClientJar, parsers, url, customClient, imageLookupTimeout, pc, tokErr, nTok, metaTags,
                imgTags, wk, numFound, returned, timer, res, err, pageResp, doCalls,
                netSends, imgFetches, pwc, calls, selectDecodes>>

\* a goroutine of an earlier call reaches its send
StaleRun(j, reply) ==
    /\ stale[j].st = "run"
    /\ stale' = [stale EXCEPT ![j].st = "send",
                              ![j].out = GoroutineSends(stale[j].base, stale[j].tag, reply)]
    /\ UNCHANGED staleFrame

\* case incoming := <-ch, when the sender is a goroutine of an earlier call
ReceiveStale(j) ==
    /\ pc = "collect"
    /\ stale[j].st = "send"
    /\ SendsOn(stale[j], calls)
    /\ stale' = [stale EXCEPT ![j] =
                   IF Len(stale[j].out) > 1 THEN [@ EXCEPT !.out = Tail(@)]
                   ELSE [@ EXCEPT !.st = "exit", !.out = <<>>]]
    /\ AfterSelect(Append(returned, export(Head(stale[j].out))))
    /\ selectDecodes' = selectDecodes + Decodes(Head(stale[j].out))
    /\ UNCHANGED <<DefaultClientJar, parsers, pwc, calls, wk, url, customClient, imageLookupTimeout, tokErr, nTok,
                   metaTags, imgTags, numFound, timer, pageResp, doCalls, netSends,
                   imgFetches>>

\* the goroutines that can be the sender of a receive on the channel of this
\* call: <<0, i>> is goroutine i of this call, <<1, j>> goroutine j of an
\* earlier call
Senders ==
    {<<0, i>> : i \in DOMAIN wk}
    \cup {<<1, j>> : j \in {k \in DOMAIN stale : SendsOn(stale[k], calls)}}

ReceiveAny(s) == IF s[1] = 0 THEN Receive(s[2]) ELSE ReceiveStale(s[2])

\* the pages and answers of the calls
CallTokens ==
    {Token("SelfClosingTag", "meta", <<Attr("property", "og:image"), Attr("content", DataUrlBad)>>),
     Token("SelfClosingTag", "img", <<Attr("src", RelUrl), Attr("alt", "x")>>)}
CallReplies == {r \in ImgReplies : r.contentType = "image/png"}

InitCalls ==
    /\ url = PageUrl /\ customClient = FALSE
    /\ imageLookupTimeout = DefaultImageLookupTimeout
    /\ pc = "start"
    /\ Idle

NextCalls ==
    \/ ParseGetHTML
    \/ \E t \in CallTokens : TokMeta(t)
    \/ \E t \in CallTokens : TokImg(t)
    \/ TokError
    \/ TokEOF
    \/ \E i \in DOMAIN wk : WorkerData(i)
    \/ \E i \in DOMAIN wk : \E reply \in CallReplies : WorkerFetch(i, reply)
    \/ \E s \in Senders : ReceiveAny(s)
    \/ Timeout
    \/ TimerFire
    \/ ParseAgain
    \/ \E j \in DOMAIN stale : \E reply \in CallReplies : StaleRun(j, reply)

SpecCalls == InitCalls /\ [][NextCalls]_vars

(***************************************************************************)
(* tokenize alone, on the body of a page that was fetched: its loop runs   *)
(* in the goroutine of Parse and never blocks, so a step that is possible  *)
(* is taken.                                                               *)
(***************************************************************************)
InitTok ==
    /\ url = PageUrl /\ customClient = FALSE
    /\ imageLookupTimeout \in {0, DefaultImageLookupTimeout}
    /\ pc = "tokenize"
    /\ tokErr = "none" /\ nTok = 0
    /\ metaTags = <<>> /\ imgTags = <<>>
    /\ wk = <<>> /\ numFound = 0 /\ returned = <<>>
    /\ timer = "none"
    /\ res = ZeroResult /\ err = "nil"
    /\ pageResp = "ok" /\ doCalls = 1 /\ netSends = 1 /\ imgFetches = 0
    /\ pwc = <<>>
    /\ calls = 0 /\ stale = <<>> /\ selectDecodes = 0
    /\ DefaultClientJar = 0 /\ parsers = <<>>

NextTok ==
    \/ \E t \in Tokens : TokMeta(t)
    \/ \E t \in Tokens : TokImg(t)
    \/ \E t \in Tokens : \E la \in Tokens \cup ErrorTokens : TokTitle(t, la)
    \/ \E t \in Tokens : TokSkip(t)
    \/ TokError
    \/ TokEOF

SpecTok == InitTok /\ [][NextTok]_vars /\ WF_vars(NextTok)

(***************************************************************************)
(* tokenize alone on pages whose og:image tag has an empty content or no   *)
(* content attribute, next to the tags of the other pages.                 *)
(***************************************************************************)
RefTokens ==
    Tokens
    \cup {Token("SelfClosingTag", "meta", <<Attr("property", "og:image"), Attr("content", "")>>),
          Token("SelfClosingTag", "meta", <<Attr("property", "og:image")>>),
          Token("SelfClosingTag", "img", <<Attr("src", ""), Attr("alt", "x")>>)}

NextRefs ==
    \/ \E t \in RefTokens : TokMeta(t)
    \/ \E t \in RefTokens : TokImg(t)
    \/ \E t \in RefTokens : \E la \in Tokens \cup ErrorTokens : TokTitle(t, la)
    \/ \E t \in RefTokens : TokSkip(t)
    \/ TokError
    \/ TokEOF

SpecRefs == InitTok /\ [][NextRefs]_vars

(***************************************************************************)
(* The constructors: NewParser and the package-level Parse, and the        *)
(* requests the Parsers they return make.  http.DefaultClient is one       *)
(* object of the process; a jar is named by the number of the              *)
(* cookiejar.New call that made it.  The callers are goroutines of the     *)
(* program, so constructions and requests come in any order.               *)
(***************************************************************************)
MaxParsers == 3     \* Parsers NewParser returns

\* getDefaultParserClient: the client it returns, and the Jar it has set on
\* that client, when its cookiejar.New is the n-th of the process
getDefaultParserClient(n) == [client |-> "http.DefaultClient", Jar |-> n]

\* p := &Parser{client: getDefaultParserClient(), ...}. made is the jar of
\* that call, used the jars its requests have gone through.
NewParserObject(n, at) ==
    [client |-> getDefaultParserClient(n).client, made |-> n, pc |-> at, used |-> <<>>]

\* the jar p.client.Do consults and fills for client c
ClientJar(c) == IF c = "http.DefaultClient" THEN DefaultClientJar ELSE 0

parsersFrame == <<url, customClient, imageLookupTimeout, pc, tokErr, nTok, metaTags,
                  imgTags, wk, numFound, returned, timer, res, err, pageResp, doCalls,
                  netSends, imgFetches, pwc, calls, stale, selectDecodes>>

InitParsers ==
    /\ url = PageUrl /\ customClient = FALSE
    /\ imageLookupTimeout = DefaultImageLookupTimeout
    /\ pc = "parsers"
    /\ Idle

\* NewParser()
NewParser ==
    /\ Len(parsers) < MaxParsers
    /\ LET n == Len(parsers) + 1 IN
         /\ DefaultClientJar' = getDefaultParserClient(n).Jar
         /\ parsers' = Append(parsers, NewParserObject(n, "new"))
    /\ UNCHANGED parsersFrame

\* recon.Parse(url): p := NewParser(), and p.Parse(url) is entered
PackageParse ==
    /\ Len(parsers) < MaxParsers
    /\ LET n == Len(parsers) + 1 IN
         /\ DefaultClientJar' = getDefaultParserClient(n).Jar
         /\ parsers' = Append(parsers, NewParserObject(n, "page"))
    /\ UNCHANGED parsersFrame

\* p.Parse(url) is entered on a Parser NewParser has returned
ParseCall(i) ==
    /\ parsers[i].pc = "new"
    /\ parsers' = [parsers EXCEPT ![i].pc = "page"]
    /\ UNCHANGED DefaultClientJar
    /\ UNCHANGED parsersFrame

\* getHTML: resp, err := p.client.Do(req)
GetHTMLDo(i) ==
    /\ parsers[i].pc = "page"
    /\ parsers' = [parsers EXCEPT ![i].pc = "images",
                                  ![i].used = Append(@, ClientJar(parsers[i].client))]
    /\ UNCHANGED DefaultClientJar
    /\ UNCHANGED parsersFrame

\* parseImage in a goroutine of analyzeImages: resp, err := p.client.Do(req)
ParseImageDo(i) ==
    /\ parsers[i].pc = "images"
    /\ parsers' = [parsers EXCEPT ![i].pc = "done",
                                  ![i].used = Append(@, ClientJar(parsers[i].client))]
    /\ UNCHANGED DefaultClientJar
    /\ UNCHANGED parsersFrame

NextParsers ==
    \/ NewParser
    \/ PackageParse
    \/ \E i \in DOMAIN parsers : ParseCall(i)
    \/ \E i \in DOMAIN parsers : GetHTMLDo(i)
    \/ \E i \in DOMAIN parsers : ParseImageDo(i)

SpecParsers == InitParsers /\ [][NextParsers]_vars

(***************************************************************************)
(* The resolver alone, as the tests drive it: candidates as tokenize       *)
(* leaves them, then buildResult with no images.                           *)
(***************************************************************************)
CandNames == {"og:title", "title", "og:site_name", "site_name", "og:url"}
CandValues == {"", "A", "B"}
Candidates ==
    {metaTag(n, v, targetedProperties[n]) : n \in CandNames, v \in CandValues}
    \cup {metaTag("og:url", v, targetedProperties["og:url"]) : v \in {CanonicalUrl, BadUrl}}
    \cup {ZeroMetaTag}

InitResolve ==
    /\ url = PageUrl /\ customClient = FALSE
    /\ imageLookupTimeout = DefaultImageLookupTimeout
    /\ pc = "resolve"
    /\ tokErr = "EOF" /\ nTok = 0
    /\ metaTags \in BoundedSeq(Candidates, MaxTags)
    /\ imgTags = <<>>
    /\ wk = <<>> /\ numFound = 0 /\ returned = <<>>
    /\ timer = "none"
    /\ res = ZeroResult /\ err = "nil"
    /\ pageResp = "ok" /\ doCalls = 0 /\ netSends = 0 /\ imgFetches = 0
    /\ pwc = <<>>
    /\ calls = 0 /\ stale = <<>> /\ selectDecodes = 0
    /\ DefaultClientJar = 0 /\ parsers = <<>>

Resolve ==
    /\ pc = "resolve"
    /\ pc' = "done"
    /\ res' = buildResult(url, metaTags, <<>>)
    /\ UNCHANGED <<DefaultClientJar, parsers, pwc, calls, stale, selectDecodes, url, customClient, imageLookupTimeout, tokErr, nTok, metaTags,
                   imgTags, wk, numFound, returned, timer, err, pageResp, doCalls,
                   netSends, imgFetches>>

SpecResolve == InitResolve /\ [][Resolve]_vars

(***************************************************************************)
(* The ranking alone: the end of analyzeImages on a collected list.        *)
(***************************************************************************)
RankSizes == {<<0, 0>>, <<1, 1>>, <<2, 1>>, <<4, 1>>}
RankImages ==
    {export(parsedImage("u", "image/png", d, "", p)) : d \in RankSizes, p \in BOOLEAN}

InitRank ==
    /\ url = PageUrl /\ customClient = FALSE
    /\ imageLookupTimeout = DefaultImageLookupTimeout
    /\ pc = "rank"
    /\ tokErr = "EOF" /\ nTok = 0
    /\ metaTags = <<>> /\ imgTags = <<>>
    /\ wk = <<>>
    /\ returned \in BoundedSeq(RankImages, MaxRank)
    /\ numFound = Len(returned)
    /\ timer = "none"
    /\ res = ZeroResult /\ err = "nil"
    /\ pageResp = "ok" /\ doCalls = 0 /\ netSends = 0 /\ imgFetches = 0
    /\ pwc = <<>>
    /\ calls = 0 /\ stale = <<>> /\ selectDecodes = 0
    /\ DefaultClientJar = 0 /\ parsers = <<>>

Rank ==
    /\ pc = "rank"
    /\ pc' = "done"
    /\ res' = ParseReturn(url, metaTags, sortImages(returned)).res
    /\ UNCHANGED <<DefaultClientJar, parsers, pwc, calls, stale, selectDecodes, url, customClient, imageLookupTimeout, tokErr, nTok, metaTags,
                   imgTags, wk, numFound, returned, timer, err, pageResp, doCalls,
                   netSends, imgFetches>>

SpecRank == InitRank /\ [][Rank]_vars

(***************************************************************************)
(* ParseWithConfidence, in the version of the package that has it          *)
(* (recon.go:1-441): the Parser itself holds metaTags and imgTags, reset   *)
(* installs the client, doRequest does not look at the status, and         *)
(* tokenize drops the candidates whose priority is not above the           *)
(* confidence.  Two calls run side by side on the same page, each on its   *)
(* own Parser and with its own confidence, and read the same events.  The  *)
(* pages hold no image reference, so analyzeImages finds nothing and       *)
(* returns its empty list at once.                                         *)
(***************************************************************************)
\* confidences in tenths, as the priorities: -1, 0, 0.5, 1 and 1.1
Confidences == {-10, 0, 5, 10, 11}

\* the test of the confidence without its upper bound
InvalidConfidenceLow(confidence) == confidence < 0

InvalidConfidence(confidence) == confidence < 0 \/ confidence > 10

\* the filter of tokenize with >= for >
KeptGE(r, confidence) == r.priority >= confidence

Kept(r, confidence) == r.priority > confidence

RECURSIVE Parser_parseMetaLoop(_, _, _)
Parser_parseMetaLoop(at, i, acc) ==
    IF i > Len(at) THEN acc
    ELSE LET v == at[i] IN
         Parser_parseMetaLoop(at, i + 1,
            IF v.Key = "property" \/ v.Key = "name"
            THEN IF v.Val \in DOMAIN targetedProperties
                 THEN [acc EXCEPT !.tag = v.Val,
                                  !.priority = targetedProperties[v.Val]]
                 ELSE acc
            ELSE IF v.Key = "content"
                 THEN [acc EXCEPT !.content = v.Val]
                 ELSE acc)

Parser_parseMeta(t) ==
    LET r == Parser_parseMetaLoop(t.attr, 1, [content |-> "", tag |-> "", priority |-> 0])
    IN  IF r.priority > 0 THEN metaTag(r.tag, r.content, r.priority) ELSE ZeroMetaTag

\* analyzeImages of a Parser: with no image reference found_images stays 0
\* and the empty list is returned before a goroutine or a timer exists.
Parser_analyzeImages(tags) == <<>>

\* buildResult of a Parser: the fields as in buildResult, the og:image
\* candidates added to the image references, then analyzeImages.
Parser_buildResult(requestURL, tags, imgs) ==
    buildResult(requestURL, tags,
        Parser_analyzeImages(
            imgs \o [i \in 1..Len(SelectSeq(tags, LAMBDA r : r.name = "og:image")) |->
                        imgTag(SelectSeq(tags, LAMBDA r : r.name = "og:image")[i].value,
                               "", TRUE)]))

PwcTokens ==
    {Token("StartTag", "meta", <<Attr("property", "og:title"), Attr("content", " A ")>>),
     Token("SelfClosingTag", "meta", <<Attr("name", "title"), Attr("content", "B")>>),
     Token("StartTag", "meta", <<Attr("name", "viewport"), Attr("content", "w")>>),
     Token("StartTag", "img", <<Attr("alt", "x")>>),
     TitleToken}
    \cup OtherTokens

\* a call of ParseWithConfidence and the Parser it runs on
Call(confidence) ==
    [confidence |-> confidence, pc |-> "start", resets |-> 0, requests |-> 0,
     metaTags |-> <<>>, imgTags |-> <<>>, res |-> ZeroResult, err |-> "nil"]

InitConf ==
    /\ url \in {PageUrl, "", BadUrl} /\ customClient = FALSE
    /\ imageLookupTimeout = DefaultImageLookupTimeout
    /\ pc = "pwc"
    /\ tokErr = "none" /\ nTok = 0
    /\ metaTags = <<>> /\ imgTags = <<>>
    /\ wk = <<>> /\ numFound = 0 /\ returned = <<>>
    /\ timer = "none"
    /\ res = ZeroResult /\ err = "nil"
    /\ pageResp = "none" /\ doCalls = 0 /\ netSends = 0 /\ imgFetches = 0
    /\ pwc \in {<<Call(c1), Call(c2)>> : c1, c2 \in Confidences}
    /\ calls = 0 /\ stale = <<>> /\ selectDecodes = 0
    /\ DefaultClientJar = 0 /\ parsers = <<>>

pwcFrame == <<DefaultClientJar, parsers, calls, stale, selectDecodes, url, customClient, imageLookupTimeout, pc, metaTags, imgTags, wk,
              numFound, returned, timer, res, err, pageResp, doCalls, netSends,
              imgFetches>>

\* ParseWithConfidence up to tokenize: the test of the confidence, reset,
\* doRequest. outcome is how p.client.Do answers.
ParseWithConfidence(k, outcome) ==
    /\ pc = "pwc"
    /\ pwc[k].pc = "start"
    /\ pwc' = [pwc EXCEPT ![k] =
         IF InvalidConfidence(pwc[k].confidence)
         THEN [@ EXCEPT !.pc = "done", !.err = "confidence", !.res = ZeroResult]
         ELSE IF newReqFails(url)
         THEN [@ EXCEPT !.resets = @ + 1, !.metaTags = <<>>, !.imgTags = <<>>,
                        !.pc = "done", !.err = "error creating request",
                        !.res = ZeroResult]
         ELSE IF outcome = "transport"
         THEN [@ EXCEPT !.resets = @ + 1, !.metaTags = <<>>, !.imgTags = <<>>,
                        !.requests = @ + 1,
                        !.pc = "done", !.err = "http error", !.res = ZeroResult]
         ELSE [@ EXCEPT !.resets = @ + 1, !.metaTags = <<>>, !.imgTags = <<>>,
                        !.requests = @ + 1, !.pc = "tokenize"]]
    /\ UNCHANGED <<tokErr, nTok>>
    /\ UNCHANGED pwcFrame

\* The calls read the same page: an event is delivered when every call has
\* left its start, to the calls that are in tokenize.
PwcDecoding ==
    /\ pc = "pwc"
    /\ \A k \in DOMAIN pwc : pwc[k].pc # "start"
    /\ \E k \in DOMAIN pwc : pwc[k].pc = "tokenize"
    /\ tokErr = "none" /\ nTok < MaxEvents

\* An event reaches the Parser of every call in tokenize; after[k] is what
\* it makes of the Parser of call k.
Deliver(after) ==
    pwc' = [k \in DOMAIN pwc |-> IF pwc[k].pc = "tokenize" THEN after[k] ELSE pwc[k]]

\* tokenize of a Parser: a meta tag
TokenizeMeta(t) ==
    /\ PwcDecoding
    /\ t.type \in {"SelfClosingTag", "StartTag"} /\ t.data = "meta"
    /\ LET r == Parser_parseMeta(t)
           after == [k \in DOMAIN pwc |->
                       IF Kept(r, pwc[k].confidence)
                       THEN [pwc[k] EXCEPT !.metaTags = Append(@, r)] ELSE pwc[k]]
       IN  Deliver(after)
    /\ nTok' = nTok + 1
    /\ UNCHANGED tokErr
    /\ UNCHANGED pwcFrame

\* tokenize of a Parser: an img tag
TokenizeImg(t) ==
    /\ PwcDecoding
    /\ t.type \in {"SelfClosingTag", "StartTag"} /\ t.data = "img"
    /\ LET r == parseImg(t)
           after == [k \in DOMAIN pwc |->
                       IF r.url # ""
                       THEN [pwc[k] EXCEPT !.imgTags = Append(@, r)] ELSE pwc[k]]
       IN  Deliver(after)
    /\ nTok' = nTok + 1
    /\ UNCHANGED tokErr
    /\ UNCHANGED pwcFrame

\* tokenize of a Parser: a title tag and the event after it
TokenizeTitle(t, la) ==
    /\ PwcDecoding
    /\ t.type \in {"SelfClosingTag", "StartTag"} /\ t.data = "title"
    /\ la \in (IF nTok + 1 < MaxEvents THEN PwcTokens ELSE {}) \cup ErrorTokens
    /\ IF la.type = "Error"
       THEN /\ tokErr' = la.data
            /\ nTok' = nTok + 1
            /\ UNCHANGED pwc
       ELSE /\ LET r == parseTitle(la)
                   after == [k \in DOMAIN pwc |->
                               IF la.type = "Text" /\ Kept(r, pwc[k].confidence)
                               THEN [pwc[k] EXCEPT !.metaTags = Append(@, r)] ELSE pwc[k]]
               IN  Deliver(after)
            /\ nTok' = nTok + 2
            /\ UNCHANGED tokErr
    /\ UNCHANGED pwcFrame

\* tokenize of a Parser: any other event
TokenizeSkip(t) ==
    /\ PwcDecoding
    /\ ~(t.type \in {"SelfClosingTag", "StartTag"} /\ t.data \in {"meta", "img", "title"})
    /\ nTok' = nTok + 1
    /\ UNCHANGED <<tokErr, pwc>>
    /\ UNCHANGED pwcFrame

\* tokenize of a Parser: the ErrorToken of io.EOF ends the loop, and
\* ParseWithConfidence returns buildResult and a nil error.
TokenizeEOF ==
    /\ pc = "pwc"
    /\ \A k \in DOMAIN pwc : pwc[k].pc # "start"
    /\ \E k \in DOMAIN pwc : pwc[k].pc = "tokenize"
    /\ tokErr \in {"none", "EOF"}
    /\ tokErr' = "EOF"
    /\ LET after == [k \in DOMAIN pwc |->
                       [pwc[k] EXCEPT !.pc = "done",
                                      !.res = Parser_buildResult(url, pwc[k].metaTags,
                                                                 pwc[k].imgTags)]]
       IN  Deliver(after)
    /\ UNCHANGED nTok
    /\ UNCHANGED pwcFrame

\* tokenize of a Parser: an ErrorToken of any other error leaves done
\* false; every later Next returns the ErrorToken again and the loop never
\* ends.
TokenizeErr ==
    /\ PwcDecoding
    /\ tokErr' = "ERR"
    /\ UNCHANGED <<nTok, pwc>>
    /\ UNCHANGED pwcFrame

NextConf ==
    \/ \E k \in DOMAIN pwc : \E outcome \in DoOutcomes(url, FALSE) :
          ParseWithConfidence(k, outcome)
    \/ \E t \in PwcTokens : TokenizeMeta(t)
    \/ \E t \in PwcTokens : TokenizeImg(t)
    \/ \E t \in PwcTokens : \E la \in PwcTokens \cup ErrorTokens : TokenizeTitle(t, la)
    \/ \E t \in PwcTokens : TokenizeSkip(t)
    \/ TokenizeEOF
    \/ TokenizeErr

SpecConf == InitConf /\ [][NextConf]_vars

(***************************************************************************)
(* export alone: analyzeImages with one goroutine at its send, whatever    *)
(* Content-Type and body the response has.                                 *)
(***************************************************************************)
MaxDim == 2

ContentTypes == {"image/jpeg", "image/gif", "image/png", "image/webp", "text/html"}

\* what a goroutine can have got from a 200 answer to the request for tag:
\* any Content-Type, and a body that decodes to any size (<<0, 0>> when it
\* does not decode)
ExportInputs(tag) ==
    {parsedImage(ResolveReference(PageUrl, tag.url), ct, <<w, h>>, tag.alt, tag.preferred) :
        ct \in ContentTypes, w \in 0..MaxDim, h \in 0..MaxDim}

InitExport ==
    /\ url = PageUrl /\ customClient = FALSE
    /\ imageLookupTimeout = DefaultImageLookupTimeout
    /\ pc = "collect"
    /\ tokErr = "EOF" /\ nTok = 1
    /\ \E a \in {"", "x"} : \E p \in BOOLEAN :
          /\ imgTags = <<imgTag(RelUrl, a, p)>>
          /\ metaTags = IF p THEN <<metaTag("og:image", RelUrl, targetedProperties["og:image"])>>
                        ELSE <<>>
          /\ \E m \in ExportInputs(imgTag(RelUrl, a, p)) :
                wk = <<Sending(Started, <<m>>, "nil", 200)>>
    /\ numFound = 1 /\ returned = <<>>
    /\ timer = "armed"
    /\ res = ZeroResult /\ err = "nil"
    /\ pageResp = "ok" /\ doCalls = 1 /\ netSends = 1 /\ imgFetches = 1
    /\ pwc = <<>>
    /\ calls = 0 /\ stale = <<>> /\ selectDecodes = 0
    /\ DefaultClientJar = 0 /\ parsers = <<>>

NextExport ==
    \/ \E i \in DOMAIN wk : Receive(i)
    \/ Timeout
    \/ TimerFire

SpecExport == InitExport /\ [][NextExport]_vars

(***************************************************************************)
(* Properties.                                                             *)
(***************************************************************************)
Eligible(f) ==
    {i \in DOMAIN metaTags :
        \E j \in DOMAIN propertyMap[f] : propertyMap[f][j] = metaTags[i].name}

TopEligible(f) ==
    {i \in Eligible(f) : \A j \in Eligible(f) : metaTags[j].priority <= metaTags[i].priority}

First(S) == CHOOSE i \in S : \A j \in S : i <= j

\* what the Result shows of a resolved og:url value v
ShownURL(v) == IF v = "" \/ UrlParseFails(v) THEN UrlString(url) ELSE UrlString(v)

\* C1: each field of the Result holds the value of a candidate of maximal
\* priority among the candidates whose identifier is in the field's list,
\* and the empty string when there is no such candidate (for URL: the
\* requested URL stays, and the Result shows the chosen og:url value when
\* it is a usable URL).
C1_ResolveMaxPriority ==
    pc = "done" =>
        /\ \A f \in Fields \ {"URL"} :
              IF Eligible(f) = {} THEN res[f] = ""
              ELSE \E i \in TopEligible(f) : res[f] = metaTags[i].value
        /\ IF Eligible("URL") = {} THEN res.URL = UrlString(url)
           ELSE \E i \in TopEligible("URL") : res.URL = ShownURL(metaTags[i].value)

\* a <title> candidate comes first, an og:title candidate later, and the
\* Title is the og:title value
C1_Witness ==
    /\ pc = "done"
    /\ \E i, j \in DOMAIN metaTags :
          /\ i < j
          /\ metaTags[i].name = "title" /\ metaTags[i].value = "B"
          /\ metaTags[j].name = "og:title" /\ metaTags[j].value = "A"
          /\ res.Title = "A"

DistNum(im) == IF im.Height > 0 THEN Abs(100 * im.Width - 191 * im.Height) ELSE 191
DistDen(im) == IF im.Height > 0 THEN im.Height ELSE 1
DistLE(a, b) == DistNum(a) * DistDen(b) <= DistNum(b) * DistDen(a)
Count(x, s) == Cardinality({k \in DOMAIN s : s[k] = x})

\* C2: in the returned image list every preferred image comes before every
\* image that is not preferred, within each group the distance of
\* width/height (0 when unmeasured) to 1.91 does not decrease, and every
\* collected image, measured or not, is in the list.
C2_RankingLaw ==
    pc = "done" =>
        LET im == res.Images IN
        /\ \A i, j \in DOMAIN im :
              i < j => /\ im[i].Preferred \/ ~im[j].Preferred
                       /\ im[i].Preferred = im[j].Preferred => DistLE(im[i], im[j])
        /\ Len(im) = Len(returned)
        /\ \A k \in DOMAIN returned : Count(returned[k], im) = Count(returned[k], returned)

\* three images arrived out of order, an unmeasured one and a preferred one
\* among them
C2_Witness ==
    /\ pc = "done"
    /\ Len(res.Images) = 3
    /\ res.Images # returned
    /\ \E k \in DOMAIN res.Images : res.Images[k].Height = 0 /\ ~res.Images[k].Preferred
    /\ \E k \in DOMAIN res.Images : res.Images[k].Preferred /\ res.Images[k].Width = 4
    /\ ~returned[1].Preferred

\* C3: once the deadline has been taken from the timer channel the
\* coordinator is out of the loop: it does not wait for goroutines that
\* have not reported.
C3_ReturnsAtDeadline ==
    (url = PageUrl /\ numFound > 0 /\ timer = "taken") => pc = "done"

\* C4: with a zero timeout Parse never waits for a goroutine after the
\* deadline, and it returns a nil error and between 0 and N images for N
\* image references.
C4_ZeroTimeoutNeverBlocks ==
    (url = PageUrl /\ imageLookupTimeout = 0 /\ pageResp = "ok" /\ tokErr = "EOF") =>
        /\ ~(pc = "collect" /\ timer = "taken")
        /\ pc = "done" => err = "nil" /\ Len(res.Images) <= Len(imgTags)

\* C5: every image of the returned list belongs to an image reference that
\* was fetched or decoded: a reference that failed leaves no entry.
C5_FailedReferenceLeavesNoEntry ==
    (url = PageUrl /\ pc = "done") =>
        \A k \in DOMAIN res.Images :
            \E i \in DOMAIN imgTags :
                /\ ~UrlParseFails(imgTags[i].url)
                /\ res.Images[k].URL \in {imgTags[i].url, ResolveReference(url, imgTags[i].url)}

\* C6: when the page was fetched and tokenized, Parse returns a nil error
\* and the Result built from the candidates, whichever goroutines failed
\* and whether or not the deadline passed.
C6_ImageFailuresNeverAbort ==
    (pc = "done" /\ pageResp = "ok" /\ tokErr = "EOF") =>
        /\ err = "nil"
        /\ res = buildResult(url, metaTags, res.Images)
        /\ Len(res.Images) <= numFound

\* the deadline passed, a goroutine failed, and Parse returned the title
C6_Witness ==
    /\ pc = "done" /\ pageResp = "ok" /\ tokErr = "EOF"
    /\ timer = "taken"
    /\ \E i \in DOMAIN imgTags : UrlParseFails(imgTags[i].url)
    /\ err = "nil" /\ res.Title = "A"

\* C7: a transport error or a status outside 200-299 on the page request
\* ends Parse with the zero Result and an error; nothing was tokenized and
\* no goroutine was started.
C7_PageFetchFailureIsFatal ==
    pageResp \in {"status", "transport"} =>
        /\ pc = "done"
        /\ res = ZeroResult /\ err # "nil"
        /\ tokErr = "none" /\ nTok = 0 /\ metaTags = <<>> /\ imgTags = <<>>
        /\ wk = <<>> /\ numFound = 0 /\ imgFetches = 0

\* the page answered with a status outside 200-299
C7_Witness ==
    pc = "done" /\ url = PageUrl /\ pageResp = "status" /\ doCalls = 1

\* C8: after a tokenizer error that is no clean end Parse has returned the
\* zero Result and an error and started no goroutine; after a clean end
\* tokenize has succeeded: a goroutine exists for every image reference
\* collected and the Result is built from the candidates collected.
C8_TokenizerErrorIsFatal ==
    /\ (pc # "tokenize" /\ tokErr = "ERR") =>
          /\ pc = "done"
          /\ res = ZeroResult /\ err # "nil"
          /\ wk = <<>> /\ numFound = 0 /\ imgFetches = 0
    /\ (pc # "tokenize" /\ tokErr = "EOF") =>
          /\ err = "nil"
          /\ Len(wk) = Len(imgTags) /\ numFound = Len(imgTags)
          /\ pc = "done" => \A f \in Fields \ {"URL"} : res[f] = getMaxProperty(metaTags, f)

\* a candidate and an image reference had been collected when the
\* tokenizer failed
C8_Witness ==
    /\ pc = "done" /\ tokErr = "ERR"
    /\ metaTags # <<>> /\ imgTags # <<>>
    /\ err = "tokenize" /\ res = ZeroResult

\* C9: Parse of an empty or unusable URL returns an error and the zero
\* Result, and no request is sent for the page or for an image.
C9_BadUrlSendsNothing ==
    (pc = "done" /\ url \in {"", "invalid url", BadUrl}) =>
        /\ err # "nil" /\ res = ZeroResult
        /\ netSends = 0 /\ imgFetches = 0

\* C10: when several candidates of a field share the maximal priority, the
\* field holds the value of the one extracted first.
C10_FirstSeenWins ==
    pc = "done" =>
        /\ \A f \in Fields \ {"URL"} :
              Eligible(f) # {} => res[f] = metaTags[First(TopEligible(f))].value
        /\ Eligible("URL") # {} =>
              res.URL = ShownURL(metaTags[First(TopEligible("URL"))].value)

\* two og:title candidates with different values: the first is the Title
C10_Witness ==
    /\ pc = "done"
    /\ \E i, j \in DOMAIN metaTags :
          /\ i < j
          /\ metaTags[i].name = "og:title" /\ metaTags[j].name = "og:title"
          /\ metaTags[i].value = "A" /\ metaTags[j].value = "B"
          /\ res.Title = "A"

\* the URL a goroutine puts in the parsedImage of reference i: the src as
\* written for a data URL, the resolved URL otherwise
RefURL(i) ==
    LET u == ResolveReference(url, imgTags[i].url)
    IN  IF UrlScheme(u) = "data" THEN imgTags[i].url ELSE u

SameRef(i, im) ==
    /\ im.URL = RefURL(i)
    /\ im.Alt = imgTags[i].alt
    /\ im.Preferred = imgTags[i].preferred

\* C11: when every goroutine got its image without an error (a 200 answer
\* or a decoded data URL) and the deadline was not taken, the returned list
\* has exactly one Image per image reference, with the reference's URL, alt
\* and preferred flag, and the preferred ones come first.
C11_OneDescriptorPerReference ==
    (/\ pc = "done" /\ pageResp = "ok" /\ tokErr = "EOF"
     /\ timer # "taken"
     /\ \A i \in DOMAIN wk : wk[i].err = "nil" /\ wk[i].status \in {0, 200}) =>
        /\ Len(res.Images) = Len(imgTags)
        /\ \A i \in DOMAIN imgTags :
              Cardinality({k \in DOMAIN res.Images : SameRef(i, res.Images[k])})
                = Cardinality({j \in DOMAIN imgTags :
                                 /\ RefURL(j) = RefURL(i)
                                 /\ imgTags[j].alt = imgTags[i].alt
                                 /\ imgTags[j].preferred = imgTags[i].preferred})
        /\ \A k, l \in DOMAIN res.Images :
              (k < l /\ res.Images[l].Preferred) => res.Images[k].Preferred

\* an img and then an og:image reference, both answered with 200; the img
\* arrived first and the og:image is first in the list
C11_Witness ==
    /\ pc = "done" /\ url = PageUrl /\ timer # "taken"
    /\ Len(imgTags) = 2 /\ ~imgTags[1].preferred /\ imgTags[2].preferred
    /\ \A i \in DOMAIN wk : wk[i].err = "nil" /\ wk[i].status = 200
    /\ Len(res.Images) = 2
    /\ ~returned[1].Preferred
    /\ SameRef(2, res.Images[1]) /\ SameRef(1, res.Images[2])

MetadataFields ==
    {"URL", "Host", "Site", "Title", "Type", "Description", "Author", "Publisher"}

\* C12: the metadata fields of a successful Result are a function of the
\* requested URL and of the candidates tokenize collected, and these do not
\* change once tokenize has returned: whatever the timeout, the answers of
\* the goroutines and their order, two runs on the same page return the
\* same metadata fields.
C12_MetadataIndependentOfImages ==
    /\ [](\/ pc # "done" \/ err # "nil"
          \/ \A f \in MetadataFields : res[f] = buildResult(url, metaTags, <<>>)[f])
    /\ [][pc \notin {"start", "tokenize"} => (metaTags' = metaTags /\ url' = url)]_vars

\* a zero timeout that was taken, an image request that failed, and the
\* title and host of the page in the Result
C12_Witness ==
    /\ pc = "done" /\ err = "nil" /\ url = PageUrl
    /\ imageLookupTimeout = 0 /\ timer = "taken"
    /\ \E i \in DOMAIN wk : wk[i].err = "parseImage"
    /\ res.Title = "A" /\ res.Host = "h"

\* C13: a call of ParseWithConfidence with a confidence below 0 or above 1
\* returns an error and the zero result; its Parser was not reset and sent
\* no request.
C13_BadConfidenceRejectedFirst ==
    \A k \in DOMAIN pwc :
        (pwc[k].pc # "start" /\ (pwc[k].confidence < 0 \/ pwc[k].confidence > 10)) =>
            /\ pwc[k].pc = "done"
            /\ pwc[k].err # "nil" /\ pwc[k].res = ZeroResult
            /\ pwc[k].resets = 0 /\ pwc[k].requests = 0

\* a call with confidence -1 and one with 1.1 on a page that can be
\* fetched: both have returned their error
C13_Witness ==
    /\ url = PageUrl /\ Len(pwc) = 2
    /\ pwc[1].confidence = -10 /\ pwc[2].confidence = 11
    /\ pwc[1].pc = "done" /\ pwc[2].pc = "done"
    /\ pwc[1].err = "confidence" /\ pwc[2].err = "confidence"

Candidate(f, r) == \E j \in DOMAIN propertyMap[f] : propertyMap[f][j] = r.name

\* C14: of two calls that read the same page with confidences c1 < c2, each
\* has kept exactly the candidates whose priority is above its confidence,
\* so what the call at c2 has kept is what the call at c1 has kept, less
\* the candidates not above c2, and every field the call at c2 resolves
\* holds the value of a candidate the call at c1 has kept.
C14_ConfidenceMonotone ==
    \A k, l \in DOMAIN pwc :
        LET a == pwc[k]
            b == pwc[l]
        IN  (/\ a.confidence < b.confidence
             /\ a.pc \in {"tokenize", "done"} /\ b.pc \in {"tokenize", "done"}
             /\ a.err = "nil" /\ b.err = "nil") =>
                /\ \A i \in DOMAIN a.metaTags : a.metaTags[i].priority > a.confidence
                /\ \A i \in DOMAIN b.metaTags : b.metaTags[i].priority > b.confidence
                /\ b.metaTags = SelectSeq(a.metaTags, LAMBDA r : r.priority > b.confidence)
                /\ (a.pc = "done" /\ b.pc = "done") =>
                      \A f \in Fields \ {"URL"} :
                          \/ b.res[f] = ""
                          \/ \E i \in DOMAIN a.metaTags :
                                /\ Candidate(f, a.metaTags[i])
                                /\ a.metaTags[i].value = b.res[f]

\* an og:title and a meta title: the call at 0 kept both, the call at 0.5
\* kept the og:title only, and both resolve Title to it
C14_Witness ==
    /\ Len(pwc) = 2
    /\ pwc[1].confidence = 0 /\ pwc[2].confidence = 5
    /\ pwc[1].pc = "done" /\ pwc[2].pc = "done"
    /\ Len(pwc[1].metaTags) = 2 /\ Len(pwc[2].metaTags) = 1
    /\ \E i \in DOMAIN pwc[1].metaTags : pwc[1].metaTags[i].priority = 5
    /\ pwc[1].res.Title = " A " /\ pwc[2].res.Title = " A "

SupportedTypes == {"image/jpeg", "image/gif", "image/png"}

\* C15: every Image of a supported type, in the list being collected and in
\* the Result, has AspectRatio = Width/Height when Height > 0 and the unset
\* AspectRatio when Height = 0.
C15_AspectRatioIsWidthOverHeight ==
    \A im \in {returned[k] : k \in DOMAIN returned} \cup {res.Images[k] : k \in DOMAIN res.Images} :
        im.Type \in SupportedTypes =>
            /\ im.Height > 0 => im.AspectRatio = [num |-> im.Width, den |-> im.Height]
            /\ im.Height = 0 => im.AspectRatio = Unset

\* a returned jpeg of 1 by 2 with ratio 1/2
C15_Witness ==
    /\ pc = "done" /\ Len(res.Images) = 1
    /\ res.Images[1].Type = "image/jpeg"
    /\ res.Images[1].Width = 1 /\ res.Images[1].Height = 2
    /\ res.Images[1].AspectRatio = [num |-> 1, den |-> 2]

\* C16: when the coordinator receives from a goroutine an image that was
\* fetched and whose Content-Type is none of image/jpeg, image/gif and
\* image/png, it appends an Image with that Content-Type, Width 0, Height 0
\* and the unset AspectRatio, and the Image is in the Result when this was
\* the last one awaited.
C16_UnsupportedTypeKeptUnmeasured ==
    [][\A i \in DOMAIN wk :
          (/\ pc = "collect" /\ wk[i].st = "send"
           /\ wk'[i] # wk[i]
           /\ Head(wk[i].out).url # ""
           /\ Head(wk[i].out).contentType \notin SupportedTypes) =>
              LET m == Head(wk[i].out)
                  im == Image(m.url, m.contentType, 0, 0, m.alt, Unset, m.preferred)
              IN  /\ returned' = Append(returned, im)
                  /\ pc' = "done" => \E k \in DOMAIN res'.Images : res'.Images[k] = im]_vars

\* a returned image/webp, unmeasured, with the URL of its reference
C16_Witness ==
    /\ pc = "done" /\ Len(res.Images) = 1
    /\ res.Images[1].Type = "image/webp"
    /\ res.Images[1].URL = ResolveReference(url, imgTags[1].url)
    /\ res.Images[1].Width = 0 /\ res.Images[1].Height = 0
    /\ res.Images[1].AspectRatio = Unset

\* C17: a reference whose request was answered with a status outside
\* 200-299 has no Image in the Result.
C17_BadStatusDropsReference ==
    (pc = "done" /\ url = PageUrl) =>
        \A i \in DOMAIN wk :
            (/\ wk[i].status # 0 /\ wk[i].status \notin 200..299
             /\ \A j \in DOMAIN imgTags : j # i => RefURL(j) # RefURL(i)) =>
                ~\E k \in DOMAIN res.Images : res.Images[k].URL = RefURL(i)

Flip(t) == [t EXCEPT !.type = IF @ = "StartTag" THEN "SelfClosingTag" ELSE "StartTag"]

\* C18: a step of tokenize is one a meta, img or title tag makes as a
\* start-tag event exactly when it is one the same tag makes as a
\* self-closing-tag event: both leave the same candidates and the same
\* image references.
C18_StartTagAsSelfClosingTag ==
    [][pc = "tokenize" =>
          \A t \in {x \in Tokens : x.type \in {"StartTag", "SelfClosingTag"}} :
              /\ TokMeta(t) <=> TokMeta(Flip(t))
              /\ TokImg(t) <=> TokImg(Flip(t))
              /\ \A la \in Tokens \cup ErrorTokens :
                    TokTitle(t, la) <=> TokTitle(Flip(t), la)]_vars

\* the og:title the pages carry as a start tag and an img they carry as a
\* self-closing tag have left their candidate and their reference
C18_Witness ==
    /\ pc = "done" /\ err = "nil"
    /\ \E i \in DOMAIN metaTags : metaTags[i] = metaTag("og:title", "A", 10)
    /\ \E i \in DOMAIN imgTags : imgTags[i] = imgTag(RelUrl, "x", FALSE)
    /\ res.Title = "A"

\* C19: a goroutine that has taken its path has exactly one message for the
\* channel, sent or still to send.
C19_ExactlyOneSignal ==
    url = PageUrl =>
        \A i \in DOMAIN wk :
            wk[i].st # "run" => wk[i].sent + Len(wk[i].out) = 1

\* C20: once analyzeImages has returned, no goroutine is at a send on the
\* channel, which nothing receives from any more.
C20_NoWorkerLeftSending ==
    (url = PageUrl /\ pc = "done") => \A i \in DOMAIN wk : wk[i].st # "send"

RECURSIVE SentUpTo(_)
SentUpTo(n) == IF n = 0 THEN 0 ELSE wk[n].sent + SentUpTo(n - 1)

\* C21: in every call of Parse on a Parser, the candidates and the image
\* references are no more than the events of this call, the goroutines are
\* no more than its image references, what the coordinator has collected
\* is what the goroutines of this call have sent, and the Result is built
\* from these alone.
C21_CallsAreIsolated ==
    /\ Len(metaTags) <= nTok /\ Len(imgTags) <= nTok
    /\ Len(wk) <= Len(imgTags)
    /\ Len(returned) = SentUpTo(Len(wk))
    /\ (pc = "done" /\ err = "nil") =>
          /\ Len(res.Images) = Len(returned)
          /\ \A k \in DOMAIN returned : Count(returned[k], res.Images) = Count(returned[k], returned)
          /\ \A f \in MetadataFields : res[f] = buildResult(url, metaTags, <<>>)[f]

\* a second call has returned its Result while a goroutine of the first is
\* still at its send
C21_Witness ==
    /\ calls = 1 /\ pc = "done" /\ err = "nil"
    /\ \E j \in DOMAIN stale : stale[j].st = "send" /\ stale[j].ch = 0
    /\ Len(res.Images) >= 1
    /\ metaTags # <<>>

\* C22: the coordinator reads and decodes no body: nothing is decoded
\* inside its select.
C22_CoordinatorNeverDecodes ==
    url = PageUrl => selectDecodes = 0

\* C23: every candidate collected has an identifier of the registry and a
\* priority in (0, 1].
C23_OnlyRegisteredCandidates ==
    url = PageUrl =>
        \A i \in DOMAIN metaTags :
            /\ metaTags[i].name \in DOMAIN targetedProperties
            /\ metaTags[i].priority > 0 /\ metaTags[i].priority <= 10

\* C24: a step of tokenize that adds an image reference is the step of an
\* og:image meta tag, and then the reference is preferred and has no alt,
\* or the step of an img tag, and then the reference is not preferred; an
\* og:image meta tag always adds its reference, and no other step changes
\* the image references.
C24_PreferredIffFromOgImage ==
    [][pc = "tokenize" =>
          /\ imgTags' # imgTags =>
                /\ Len(imgTags') = Len(imgTags) + 1
                /\ SubSeq(imgTags', 1, Len(imgTags)) = imgTags
                /\ LET new == imgTags'[Len(imgTags')] IN
                   \E t \in Tokens :
                      \/ /\ TokMeta(t) /\ parseMeta(t).name = "og:image"
                         /\ new.preferred /\ new.alt = ""
                      \/ /\ TokImg(t)
                         /\ ~new.preferred
          /\ \A t \in Tokens :
                (TokMeta(t) /\ parseMeta(t).name = "og:image") => imgTags' # imgTags]_vars

\* an og:image reference and an img reference, collected in this order
C24_Witness ==
    /\ pc # "tokenize" /\ tokErr = "EOF"
    /\ imgTags = <<imgTag(RelUrl, "", TRUE), imgTag(RelUrl, "x", FALSE)>>

\* C25: URL and Host of a Result come from one URL: both from the resolved
\* og:url value when it is not empty and url.Parse accepts it, both from
\* the requested URL otherwise.
C25_UrlAndHostFromOneUrl ==
    pc = "done" =>
        LET c == getMaxProperty(metaTags, "URL") IN
        IF c # "" /\ ~UrlParseFails(c)
        THEN res.URL = UrlString(c) /\ res.Host = UrlHost(c)
        ELSE res.URL = UrlString(url) /\ res.Host = UrlHost(url)

\* the page was requested at host h and names a canonical URL at host c
C25_Witness ==
    /\ pc = "done" /\ UrlHost(url) = "h"
    /\ getMaxProperty(metaTags, "URL") = CanonicalUrl
    /\ res.URL = CanonicalUrl /\ res.Host = "c"

\* C26: when the resolved og:url value is not empty and is no absolute URL,
\* the Result has the requested URL and its host.
C26_RelativeCanonicalFallsBack ==
    pc = "done" =>
        LET c == getMaxProperty(metaTags, "URL") IN
        (c # "" /\ UrlScheme(c) = "") =>
            res.URL = UrlString(url) /\ res.Host = UrlHost(url)

\* C27: when tokenize has returned and no image reference was collected,
\* Parse has returned: no goroutine and no timer was started, no image was
\* requested, and the Result has the title of the page and no image.
C27_NoReferenceNoWorkerNoTimer ==
    (pc \notin {"start", "tokenize"} /\ tokErr = "EOF" /\ imgTags = <<>>) =>
        /\ pc = "done" /\ err = "nil"
        /\ wk = <<>> /\ numFound = 0 /\ timer = "none" /\ imgFetches = 0
        /\ res.Images = <<>>
        /\ res.Title = getMaxProperty(metaTags, "Title")

\* a page with a <title> and its text only
C27_Witness ==
    /\ pc = "done" /\ url = PageUrl /\ tokErr = "EOF"
    /\ metaTags = <<metaTag("title", "T", 5)>> /\ imgTags = <<>>
    /\ res.Title = "T" /\ res.Images = <<>>
    /\ timer = "none"

\* the orders in which the identifiers of a list can be written
Orders(list) ==
    {l \in [DOMAIN list -> {list[k] : k \in DOMAIN list}] :
        \A a, b \in DOMAIN list : a # b => l[a] # l[b]}

\* the value getMaxProperty's two loops find with the identifiers in order l
ValueIn(l) == ScanSearch(metaTags, l, 1, [val |-> "", maxWeight |-> 0]).val

\* C28: for every field, the value getMaxProperty finds is the same for
\* every order of the identifiers in the field's list, and it is the value
\* the Result holds (for URL, as the Result shows it).
C28_ListOrderIrrelevant ==
    \A f \in Fields : \A l \in Orders(propertyMap[f]) :
        /\ ValueIn(l) = ValueIn(propertyMap[f])
        /\ pc = "done" =>
              IF f = "URL" THEN res.URL = ShownURL(ValueIn(l))
              ELSE res[f] = ValueIn(l)

\* a <title> candidate and a later og:title candidate, both with a value:
\* the list written as [title, og:title] gives the og:title value too
C28_Witness ==
    /\ pc = "done"
    /\ \E i, j \in DOMAIN metaTags :
          /\ i < j
          /\ metaTags[i] = metaTag("title", "A", 5)
          /\ metaTags[j] = metaTag("og:title", "B", 10)
    /\ ValueIn(<<"title", "og:title">>) = "B"
    /\ res.Title = "B"

\* C29: when the loop of analyzeImages has stopped with as many collected
\* results as goroutines were started, every goroutine has had exactly one
\* message received: none was counted twice while another's is undelivered.
C29_OneResultPerWorker ==
    (url = PageUrl /\ pc = "done" /\ numFound > 0 /\ Len(returned) >= numFound) =>
        \A i \in DOMAIN wk : wk[i].sent = 1

\* C30: tokenize, once running, returns; when the end-of-stream signal was
\* consumed as the event after a title tag, the next step of tokenize is
\* its return with no error; and whenever the stream ended cleanly, tokenize
\* has returned nil (Parse goes on with no error).
C30_TokenizeTerminates ==
    /\ (pc = "tokenize") ~> (pc # "tokenize")
    /\ [][(pc = "tokenize" /\ tokErr = "EOF") =>
              (pc' \in {"collect", "done"} /\ tokErr' = "EOF" /\ err' = "nil")]_vars
    /\ []((pc # "tokenize" /\ tokErr = "EOF") => err = "nil")

\* a title tag was the only event and the end of the stream was consumed as
\* the event after it
C30_Witness ==
    /\ pc = "tokenize" /\ tokErr = "EOF"
    /\ nTok = 1 /\ metaTags = <<>> /\ imgTags = <<>>

\* C31: every image reference tokenize has collected, from an og:image
\* meta tag or from an img tag, has a non-empty source URL.
C31_ReferencesHaveSource ==
    \A i \in DOMAIN imgTags : imgTags[i].url # ""

\* C32: every Parser NewParser has returned has an HTTP client no other
\* Parser has, the jar of that client is still the jar made when the Parser
\* was constructed, and every request of the Parser went through that jar.
C32_NewParserLeavesOthersUnchanged ==
    \A i \in DOMAIN parsers :
        /\ ClientJar(parsers[i].client) = parsers[i].made
        /\ \A k \in DOMAIN parsers[i].used : parsers[i].used[k] = parsers[i].made
        /\ \A j \in DOMAIN parsers : i # j => parsers[i].client # parsers[j].client

====
